---- MODULE Spec2Model ----
(***************************************************************************)
(* Tile-map renderers of src/renderer.py: the CPU-blit renderer            *)
(* (NaiveInstantaneousRenderer), the two raw-OpenGL renderers built on     *)
(* _OpenGLRenderer (VertexBufferedRenderer, GeomBufferedRenderer) and the  *)
(* pyglet vertex-list renderer (Pyglet_VertexBufferedRenderer).            *)
(*                                                                         *)
(* Numbers.  Positions are integers in tile-grid units.  Normalised atlas  *)
(* coordinates are kept in fixed point: one unit is                        *)
(* 1/TEXTURE_TILE_SIZE_NORMALIZED of an atlas tile, so the arithmetic of   *)
(* the vertex builders is exact (float rounding is not modelled).  The     *)
(* projection matrix is computed over exact rationals <<num, den>>.        *)
(***************************************************************************)
EXTENDS Integers, Sequences, FiniteSets, TLC

\* ------------------------------------------------------------------ bounds
MaxCols == 2
MaxRows == 2
MaxEdits == 1
\* rows of tiles in the texture atlas (texture.height // TEXTURE_TILE_SIZE_PX)
AtlasRows == 2

\* --------------------------------------------- src.constants (renderer.py:7-13)
TEXTURE_TILE_SIZE_PX == 2
TEXTURE_N_TILES_PER_ROW == 2
TEXTURE_TILE_SIZE_NORMALIZED == 4
TEXTURE_TILE_PADDING == 1

VARIABLES
    TILEMAP_N_COLS,   \* src.constants.TILEMAP_N_COLS, fixed at start
    TILEMAP_N_ROWS,   \* src.constants.TILEMAP_N_ROWS, fixed at start
    tilemap,          \* tilemap.map: the linear, row-major buffer of tile types
    nEdits,           \* number of tilemap edits made so far
    ctxAlive,         \* the OpenGL context exists
    c_ulong_is_GLuint, \* the platform's ctypes.c_ulong is the class GLuint (int and long of one size)
    glPrograms,       \* live program objects   [name, owner, linked, attached]
    glShaders,        \* live shader objects    [name, owner]
    glBuffers,        \* live buffer objects    [name, owner, data]
    glVaos,           \* live vertex arrays     [name, owner, attribs]
    rnd,              \* the renderer objects, one per class
    frame,            \* what the last draw() of each renderer put on screen
    ghost             \* history of each renderer, read by the properties only

vars == <<TILEMAP_N_COLS, TILEMAP_N_ROWS, tilemap, nEdits, ctxAlive, c_ulong_is_GLuint,
          glPrograms, glShaders, glBuffers, glVaos, rnd, frame, ghost>>

Kinds == {"Naive", "Vertex", "Geom", "PygletVertex"}
GLKinds == {"Vertex", "Geom"}
BufferedKinds == {"Vertex", "Geom", "PygletVertex"}

None == 0
NoError == "none"
NTileTypes == AtlasRows * TEXTURE_N_TILES_PER_ROW
SizeofFloat == 4
SizeofUint32 == 4


\* ------------------------------------------------- the tilemap collaborator
Tilemap_getitem(y, x) == tilemap[y * TILEMAP_N_COLS + x + 1]
Tilemap_len == Len(tilemap)
Tilemap_map == tilemap

\* ------------------------------------------------------ exact rationals
RNorm(a) == IF a[2] < 0 THEN <<-a[1], -a[2]>> ELSE a
RInt(n) == <<n, 1>>
RDiv(n, d) == RNorm(<<n, d>>)
RAdd(a, b) == <<a[1] * b[2] + b[1] * a[2], a[2] * b[2]>>
RMul(a, b) == <<a[1] * b[1], a[2] * b[2]>>
REq(a, b) == a[1] * b[2] = b[1] * a[2]
RLe(a, b) == a[1] * b[2] <= b[1] * a[2]

\* ------------------------------------------- pyglet.math.Mat4 (column-major)
Mat4_identity ==
    [i \in 1..16 |-> IF (i - 1) % 5 = 0 THEN RInt(1) ELSE RInt(0)]

Mat4_from_translation(v) ==
    [Mat4_identity EXCEPT ![13] = v[1], ![14] = v[2], ![15] = v[3]]

Mat4_from_scale(v) ==
    [Mat4_identity EXCEPT ![1] = v[1], ![6] = v[2], ![11] = v[3]]

\* entry (row r, column c) of a @ b is the sum over k of a(r, k) * b(k, c)
Mat4_matmul(a, b) ==
    [i \in 1..16 |->
        LET r == (i - 1) % 4
            c == (i - 1) \div 4
            t(k) == RMul(a[k * 4 + r + 1], b[c * 4 + k + 1])
        IN RAdd(RAdd(t(0), t(1)), RAdd(t(2), t(3)))]

\* variant: the model matrix translates by the whole extent, not by half of it
_get_projection_matrix_uncentred ==
    LET model_matrix == Mat4_from_translation(
            <<RDiv(-TILEMAP_N_COLS, 1), RDiv(-TILEMAP_N_ROWS, 1), RInt(0)>>)
        view_matrix == Mat4_identity
        proj_matrix == Mat4_from_scale(
            <<RDiv(2, TILEMAP_N_COLS), RDiv(2, TILEMAP_N_ROWS), RInt(0)>>)
    IN Mat4_matmul(Mat4_matmul(proj_matrix, view_matrix), model_matrix)

_get_projection_matrix ==
    LET model_matrix == Mat4_from_translation(
            <<RDiv(-TILEMAP_N_COLS, 2), RDiv(-TILEMAP_N_ROWS, 2), RInt(0)>>)
        view_matrix == Mat4_identity
        proj_matrix == Mat4_from_scale(
            <<RDiv(2, TILEMAP_N_COLS), RDiv(2, TILEMAP_N_ROWS), RInt(0)>>)
    IN Mat4_matmul(Mat4_matmul(proj_matrix, view_matrix), model_matrix)

\* ------------------------------------------- filling a Python list by index
\* st = [ok, data, count]: the list being filled, how often each slot was
\* assigned, and whether every assignment so far was inside the list.
\* An index past the end raises IndexError, which ends the fill.
\* WriteAt4 is data[i + 0] = v[1], ..., data[i + 3] = v[4].
WriteAt4(st, i, v) ==
    IF ~st.ok THEN st
    ELSE IF i + 4 > Len(st.data) THEN [st EXCEPT !.ok = FALSE]
    ELSE [ok |-> TRUE,
          data |-> [st.data EXCEPT ![i + 1] = v[1], ![i + 2] = v[2],
                                   ![i + 3] = v[3], ![i + 4] = v[4]],
          count |-> [st.count EXCEPT ![i + 1] = @ + 1, ![i + 2] = @ + 1,
                                     ![i + 3] = @ + 1, ![i + 4] = @ + 1]]

\* WriteAt2 is data[i + 0] = v[1], data[i + 1] = v[2].
WriteAt2(st, i, v) ==
    IF ~st.ok THEN st
    ELSE IF i + 2 > Len(st.data) THEN [st EXCEPT !.ok = FALSE]
    ELSE [ok |-> TRUE,
          data |-> [st.data EXCEPT ![i + 1] = v[1], ![i + 2] = v[2]],
          count |-> [st.count EXCEPT ![i + 1] = @ + 1, ![i + 2] = @ + 1]]

Zeros(n) == [ok |-> TRUE, data |-> [p \in 1..n |-> 0], count |-> [p \in 1..n |-> 0]]

\* ------------------------------------------------------ the vertex builders
\* Cells are visited with x in the outer loop and y in the inner loop.
\* variant: the atlas column taken with // instead of %
tx0_floordiv(tile) == (tile \div TEXTURE_N_TILES_PER_ROW) * TEXTURE_TILE_SIZE_NORMALIZED + TEXTURE_TILE_PADDING
tx0(tile) == (tile % TEXTURE_N_TILES_PER_ROW) * TEXTURE_TILE_SIZE_NORMALIZED + TEXTURE_TILE_PADDING
ty0(tile) == (tile \div TEXTURE_N_TILES_PER_ROW) * TEXTURE_TILE_SIZE_NORMALIZED + TEXTURE_TILE_PADDING
tSize == TEXTURE_TILE_SIZE_NORMALIZED - TEXTURE_TILE_PADDING * 2

\* variant: the second triangle starts at the bottom-left corner
TileVertices_reordered(x, y, tile) ==
    << <<x,     y,     tx0(tile),         ty0(tile)>>,
       <<x + 1, y,     tx0(tile) + tSize, ty0(tile)>>,
       <<x,     y + 1, tx0(tile),         ty0(tile) + tSize>>,
       <<x,     y + 1, tx0(tile),         ty0(tile) + tSize>>,
       <<x + 1, y,     tx0(tile) + tSize, ty0(tile)>>,
       <<x + 1, y + 1, tx0(tile) + tSize, ty0(tile) + tSize>> >>

\* the 6 vertices <<position x, position y, texcoord x, texcoord y>> of a tile
TileVertices(x, y, tile) ==
    << <<x,     y,     tx0(tile),         ty0(tile)>>,
       <<x + 1, y,     tx0(tile) + tSize, ty0(tile)>>,
       <<x,     y + 1, tx0(tile),         ty0(tile) + tSize>>,
       <<x + 1, y,     tx0(tile) + tSize, ty0(tile)>>,
       <<x,     y + 1, tx0(tile),         ty0(tile) + tSize>>,
       <<x + 1, y + 1, tx0(tile) + tSize, ty0(tile) + tSize>> >>

\* variant: position x and y exchanged
VertexBuffered_Tile_transposed(st, i, x, y, tile) ==
    LET vs == TileVertices(y, x, tile)
    IN WriteAt4(WriteAt4(WriteAt4(WriteAt4(WriteAt4(WriteAt4(st,
           i, vs[1]), i + 4, vs[2]), i + 8, vs[3]),
           i + 12, vs[4]), i + 16, vs[5]), i + 20, vs[6])

\* variant: i += 4 missing before the last vertex
VertexBuffered_Tile_overwrite(st, i, x, y, tile) ==
    LET vs == TileVertices(x, y, tile)
    IN WriteAt4(WriteAt4(WriteAt4(WriteAt4(WriteAt4(WriteAt4(st,
           i, vs[1]), i + 4, vs[2]), i + 8, vs[3]),
           i + 12, vs[4]), i + 16, vs[5]), i + 16, vs[6])

\* one pass of the loop body: six times vertex_data[i + 0..3] = ..., i += 4
VertexBuffered_Tile(st, i, x, y, tile) ==
    LET vs == TileVertices(x, y, tile)
    IN WriteAt4(WriteAt4(WriteAt4(WriteAt4(WriteAt4(WriteAt4(st,
           i, vs[1]), i + 4, vs[2]), i + 8, vs[3]),
           i + 12, vs[4]), i + 16, vs[5]), i + 20, vs[6])

RECURSIVE VertexBuffered_Loop(_, _, _)
VertexBuffered_Loop(c, i, st) ==
    IF ~st.ok \/ c = TILEMAP_N_COLS * TILEMAP_N_ROWS THEN st
    ELSE LET x == c \div TILEMAP_N_ROWS
             y == c % TILEMAP_N_ROWS
             tile == Tilemap_getitem(y, x)
         IN VertexBuffered_Loop(c + 1, i + 24, VertexBuffered_Tile(st, i, x, y, tile))

VertexBufferedRenderer_update_vbo ==
    LET float_count == Tilemap_len * 6 * 2 * 2
    IN VertexBuffered_Loop(0, 0, Zeros(float_count))

\* ctypes.c_uint32(v) of a non-negative v: v modulo 2^32, in 16-bit halves
c_uint32(v) == (v % 65536) + 65536 * ((v \div 65536) % 65536)

GeomBufferedRenderer_update_vbo ==
    LET vertex_data == Tilemap_map
        l == Len(vertex_data)
    IN [ok |-> TRUE, data |-> [p \in 1..l |-> c_uint32(vertex_data[p])],
        count |-> [p \in 1..l |-> 1]]

\* Pyglet_VertexBufferedRenderer: positions and texcoords go to two lists,
\* 2 floats per vertex each.
Pyglet_TileVertices(x, y, tile) ==
    << <<x,     y,     tx0(tile),         ty0(tile)>>,
       <<x + 1, y,     tx0(tile) + tSize, ty0(tile)>>,
       <<x,     y + 1, tx0(tile),         ty0(tile) + tSize>>,
       <<x + 1, y,     tx0(tile) + tSize, ty0(tile)>>,
       <<x,     y + 1, tx0(tile),         ty0(tile) + tSize>>,
       <<x + 1, y + 1, tx0(tile) + tSize, ty0(tile) + tSize>> >>

\* one pass of the loop body on one of the two lists: six times
\* data[i + 0..1] = ..., i += 2; first = 1 for positions, 3 for texcoords
Pyglet_Tile(st, i, x, y, tile, first) ==
    LET vs == Pyglet_TileVertices(x, y, tile)
        two(v) == <<vs[v][first], vs[v][first + 1]>>
    IN WriteAt2(WriteAt2(WriteAt2(WriteAt2(WriteAt2(WriteAt2(st,
           i, two(1)), i + 2, two(2)), i + 4, two(3)),
           i + 6, two(4)), i + 8, two(5)), i + 10, two(6))

RECURSIVE Pyglet_Loop(_, _, _, _)
Pyglet_Loop(c, i, st, first) ==
    IF ~st.ok \/ c = TILEMAP_N_COLS * TILEMAP_N_ROWS THEN st
    ELSE LET x == c \div TILEMAP_N_ROWS
             y == c % TILEMAP_N_ROWS
             tile == Tilemap_getitem(y, x)
         IN Pyglet_Loop(c + 1, i + 12, Pyglet_Tile(st, i, x, y, tile, first), first)

\* vertex_list: [aPosition, aTexCoord]; the slice assignments keep the length
Pyglet_update_vbo(vertex_list) ==
    LET float_count == Len(vertex_list.aPosition)
        position_data == Pyglet_Loop(0, 0, Zeros(float_count), 1)
        texcoord_data == Pyglet_Loop(0, 0, Zeros(float_count), 3)
    IN IF position_data.ok /\ texcoord_data.ok
       THEN [ok |-> TRUE, count |-> position_data.count,
             vertex_list |-> [aPosition |-> position_data.data,
                              aTexCoord |-> texcoord_data.data]]
       ELSE [ok |-> FALSE, count |-> position_data.count, vertex_list |-> vertex_list]

Pyglet_allocate_vbo_vao ==
    LET vertex_count == Tilemap_len * 6
    IN [aPosition |-> [p \in 1..(vertex_count * 2) |-> 0],
        aTexCoord |-> [p \in 1..(vertex_count * 2) |-> 0]]

\* ------------------------------------------------------- OpenGL objects
FreshName(used) ==
    CHOOSE n \in 1..(Cardinality(used) + 1) :
        n \notin used /\ \A m \in 1..(n - 1) : m \in used

Names(objs) == {o.name : o \in objs}

ShaderCount(k) == IF k = "Geom" THEN 3 ELSE IF k = "Naive" THEN 0 ELSE 2
ShaderInfoLog(i) == <<"compile log 1", "compile log 2", "compile log 3">>[i]
ProgramInfoLog == "link log"

\* the loop over sources_and_shadertypes; status[i] says whether source i compiles
RECURSIVE CompileLoop(_, _, _, _)
CompileLoop(k, status, i, st) ==
    IF i > Len(status) THEN st
    ELSE LET handle == FreshName(st.used)
             st1 == [st EXCEPT !.shaders = @ \cup {[name |-> handle, owner |-> k]},
                               !.used = @ \cup {handle},
                               !.handles = Append(@, handle)]
         IN IF ~status[i]
            THEN [st1 EXCEPT !.error = ShaderInfoLog(i)]
            ELSE CompileLoop(k, status, i + 1, [st1 EXCEPT !.attached = @ \cup {handle}])

NewProgram(k, name, linked, attached) ==
    [name |-> name, owner |-> k, linked |-> linked, attached |-> attached,
     projection |-> <<>>, n_cols |-> 0]

\* variant: GL_COMPILE_STATUS is not looked at
_compile_shader_program_unchecked(k, status, linkOK) ==
    LET used == Names(glPrograms) \cup Names(glShaders)
        prog == FreshName(used)
        st == CompileLoop(k, [i \in DOMAIN status |-> TRUE], 1,
                 [shaders |-> glShaders, used |-> used \cup {prog},
                  handles |-> <<>>, attached |-> {}, error |-> NoError])
        made == {st.handles[j] : j \in DOMAIN st.handles}
    IN IF ~linkOK
       THEN [handle |-> prog, error |-> ProgramInfoLog, compiled |-> Len(st.handles),
             programs |-> glPrograms \cup {NewProgram(k, prog, FALSE, st.attached)},
             shaders |-> st.shaders]
       ELSE [handle |-> prog, error |-> NoError, compiled |-> Len(st.handles),
             programs |-> glPrograms \cup {NewProgram(k, prog, TRUE, {})},
             shaders |-> {s \in st.shaders : s.name \notin made}]

_compile_shader_program(k, status, linkOK) ==
    LET used == Names(glPrograms) \cup Names(glShaders)
        prog == FreshName(used)
        st == CompileLoop(k, status, 1,
                 [shaders |-> glShaders, used |-> used \cup {prog},
                  handles |-> <<>>, attached |-> {}, error |-> NoError])
        made == {st.handles[j] : j \in DOMAIN st.handles}
    IN IF st.error # NoError
       THEN [handle |-> prog, error |-> st.error, compiled |-> Len(st.handles),
             programs |-> glPrograms \cup {NewProgram(k, prog, FALSE, st.attached)},
             shaders |-> st.shaders]
       ELSE IF ~linkOK
       THEN [handle |-> prog, error |-> ProgramInfoLog, compiled |-> Len(st.handles),
             programs |-> glPrograms \cup {NewProgram(k, prog, FALSE, st.attached)},
             shaders |-> st.shaders]
       ELSE [handle |-> prog, error |-> NoError, compiled |-> Len(st.handles),
             programs |-> glPrograms \cup {NewProgram(k, prog, TRUE, {})},
             shaders |-> {s \in st.shaders : s.name \notin made}]

_allocate_vbo_vao(k) ==
    LET vbo == FreshName(Names(glBuffers))
        vao == FreshName(Names(glVaos))
    IN [vbo |-> vbo, vao |-> vao,
        buffers |-> glBuffers \cup {[name |-> vbo, owner |-> k, data |-> <<>>]},
        vaos |-> glVaos \cup {[name |-> vao, owner |-> k, attribs |-> <<>>]}]

_update_vbo(k) ==
    IF k = "Vertex" THEN VertexBufferedRenderer_update_vbo
    ELSE GeomBufferedRenderer_update_vbo

\* glVertexAttrib(I)Pointer of attribute 0 (and 1), sizes and offsets in bytes
VertexBufferedRenderer_update_vao(vbo) ==
    LET n_coords_vertex_position == 2
        n_coords_texture_coordinates == 2
        stride == SizeofFloat * (n_coords_vertex_position + n_coords_texture_coordinates)
    IN << [buffer |-> vbo, size |-> n_coords_vertex_position,
           stride |-> stride, offset |-> 0],
          [buffer |-> vbo, size |-> n_coords_texture_coordinates,
           stride |-> stride, offset |-> SizeofFloat * n_coords_vertex_position] >>

GeomBufferedRenderer_update_vao(vbo) ==
    << [buffer |-> vbo, size |-> 1, stride |-> SizeofUint32, offset |-> 0] >>

_update_vao(k, vbo) ==
    IF k = "Vertex" THEN VertexBufferedRenderer_update_vao(vbo)
    ELSE GeomBufferedRenderer_update_vao(vbo)

\* variant: the buffer is filled only while it is still empty
_OpenGLRenderer_recalculate_once(k, vbo, vao, buffers, vaos) ==
    LET up == _update_vbo(k)
    IN IF ~up.ok
       THEN [ok |-> FALSE, buffers |-> buffers, vaos |-> vaos]
       ELSE [ok |-> TRUE,
             buffers |-> {IF b.name = vbo /\ b.data = <<>>
                          THEN [b EXCEPT !.data = up.data] ELSE b : b \in buffers},
             vaos |-> {IF v.name = vao THEN [v EXCEPT !.attribs = _update_vao(k, vbo)] ELSE v
                            : v \in vaos}]

\* _OpenGLRenderer.recalculate on the buffer and vertex array named vbo, vao
_OpenGLRenderer_recalculate(k, vbo, vao, buffers, vaos) ==
    LET up == _update_vbo(k)
    IN IF ~up.ok
       THEN [ok |-> FALSE, buffers |-> buffers, vaos |-> vaos]
       ELSE [ok |-> TRUE,
             buffers |-> {IF b.name = vbo THEN [b EXCEPT !.data = up.data] ELSE b
                            : b \in buffers},
             vaos |-> {IF v.name = vao THEN [v EXCEPT !.attribs = _update_vao(k, vbo)] ELSE v
                            : v \in vaos}]

\* ----------------------------------------------------------------- draw
\* the size components of attribute attr of vertex v, read from the buffer data
FetchAttrib(data, attr, v) ==
    LET base == (attr.offset + v * attr.stride) \div SizeofFloat
    IN [j \in 1..attr.size |->
           IF base + j <= Len(data) THEN data[base + j] ELSE 0]

BufferData(name) ==
    IF \E b \in glBuffers : b.name = name
    THEN (CHOOSE b \in glBuffers : b.name = name).data
    ELSE <<>>

\* glDrawArrays(GL_TRIANGLES, 0, count): vertices 3j, 3j+1, 3j+2 make triangle j
AssembleTriangles(vertex, count) ==
    [j \in 1..(count \div 3) |->
        <<vertex[3 * j - 2], vertex[3 * j - 1], vertex[3 * j]>>]

\* variant: the draw call asks for as many vertices as the buffer has floats
VertexBufferedRenderer_draw_float_count(attribs) ==
    LET n_floats_per_tile == 6 * 2 * 2
        count == Tilemap_len * n_floats_per_tile
        vertex == [v \in 1..count |->
                     FetchAttrib(BufferData(attribs[1].buffer), attribs[1], v - 1)
                     \o FetchAttrib(BufferData(attribs[2].buffer), attribs[2], v - 1)]
    IN AssembleTriangles(vertex, count)

VertexBufferedRenderer_draw(attribs) ==
    LET n_vertices_per_tile == 6
        count == Tilemap_len * n_vertices_per_tile
        vertex == [v \in 1..count |->
                     FetchAttrib(BufferData(attribs[1].buffer), attribs[1], v - 1)
                     \o FetchAttrib(BufferData(attribs[2].buffer), attribs[2], v - 1)]
    IN AssembleTriangles(vertex, count)

\* the geometry stage: point number id carrying tile type tile becomes the quad
\* of cell (id % n_cols, id // n_cols)
GeometryShader(id, tile, n_cols) ==
    LET x == id % n_cols
        y == id \div n_cols
        u0 == (tile % TEXTURE_N_TILES_PER_ROW) * TEXTURE_TILE_SIZE_NORMALIZED + TEXTURE_TILE_PADDING
        v0 == (tile \div TEXTURE_N_TILES_PER_ROW) * TEXTURE_TILE_SIZE_NORMALIZED + TEXTURE_TILE_PADDING
        s == TEXTURE_TILE_SIZE_NORMALIZED - TEXTURE_TILE_PADDING * 2
    IN << << <<x, y, u0, v0>>, <<x + 1, y, u0 + s, v0>>, <<x, y + 1, u0, v0 + s>> >>,
          << <<x + 1, y, u0 + s, v0>>, <<x, y + 1, u0, v0 + s>>,
             <<x + 1, y + 1, u0 + s, v0 + s>> >> >>

\* glDrawArrays(GL_POINTS, 0, count) through the geometry stage
GeomBufferedRenderer_draw(attribs, n_cols) ==
    LET count == Tilemap_len
        tile(id) == FetchAttrib(BufferData(attribs[1].buffer), attribs[1], id)[1]
    IN [j \in 1..(2 * count) |->
           GeometryShader((j - 1) \div 2, tile((j - 1) \div 2), n_cols)[((j - 1) % 2) + 1]]

\* vertex_list.draw(GL_TRIANGLES): all the vertices of the list
Pyglet_draw(vertex_list) ==
    LET count == Len(vertex_list.aPosition) \div 2
        vertex == [v \in 1..count |->
                     <<vertex_list.aPosition[2 * v - 1], vertex_list.aPosition[2 * v],
                       vertex_list.aTexCoord[2 * v - 1], vertex_list.aTexCoord[2 * v]>>]
    IN AssembleTriangles(vertex, count)

\* pyglet.image.ImageGrid over the atlas: item t is the tile image of column
\* t % columns and row t // columns, in texture pixels, with its anchor set
ImageGrid ==
    LET rows == (AtlasRows * TEXTURE_TILE_SIZE_PX) \div TEXTURE_TILE_SIZE_PX
        columns == (TEXTURE_N_TILES_PER_ROW * TEXTURE_TILE_SIZE_PX) \div TEXTURE_TILE_SIZE_PX
    IN [t \in 1..(rows * columns) |->
           [x |-> ((t - 1) % columns) * TEXTURE_TILE_SIZE_PX,
            y |-> ((t - 1) \div columns) * TEXTURE_TILE_SIZE_PX,
            width |-> TEXTURE_TILE_SIZE_PX, height |-> TEXTURE_TILE_SIZE_PX,
            anchor_x |-> 0, anchor_y |-> TEXTURE_TILE_SIZE_PX]]

\* image.blit(x, y, width, height): the screen rectangle, in pixels, and the
\* texture region, in texture pixels
Blit(im, x, y, width, height) ==
    [x1 |-> x - im.anchor_x, y1 |-> y - im.anchor_y,
     x2 |-> x - im.anchor_x + width, y2 |-> y - im.anchor_y + height,
     u1 |-> im.x, v1 |-> im.y, u2 |-> im.x + im.width, v2 |-> im.y + im.height]

NaiveInstantaneousRenderer_draw(image_grid) ==
    [c \in 1..(TILEMAP_N_COLS * TILEMAP_N_ROWS) |->
        LET x == (c - 1) \div TILEMAP_N_ROWS
            y == (c - 1) % TILEMAP_N_ROWS
            tile == Tilemap_getitem(y, x)
            image_tile == image_grid[tile + 1]
            x_ == x * TEXTURE_TILE_SIZE_PX
            y_ == (y + 1) * TEXTURE_TILE_SIZE_PX
        IN Blit(image_tile, x_, y_, TEXTURE_TILE_SIZE_PX, TEXTURE_TILE_SIZE_PX)]

\* ------------------------------------------------------- the renderer objects
Blank ==
    [state |-> "Uninitialized", _shader_handle |-> None, _vbo_handle |-> None,
     _vao_handle |-> None, error |-> NoError,
     vertex_list |-> [aPosition |-> <<>>, aTexCoord |-> <<>>],
     projection |-> <<>>, image_grid |-> <<>>]

Ghost0 ==
    [failStage |-> 0, compiled |-> 0, delCtx |-> "none", delFailedAt |-> 0,
     delRaised |-> FALSE,
     synced |-> FALSE, drawnSynced |-> FALSE,
     uploaded |-> <<>>, drawnStale |-> FALSE]

\* the first stage of construction the inputs make fail:
\* 0 none, i shader i, Len(status) + 1 the link
FirstDefect(status, linkOK) ==
    IF \E i \in DOMAIN status : ~status[i]
    THEN CHOOSE i \in DOMAIN status : ~status[i] /\ \A j \in 1..(i - 1) : status[j]
    ELSE IF linkOK THEN 0 ELSE Len(status) + 1

\* _OpenGLRenderer.__init__
OpenGLRenderer_init(k, status, linkOK) ==
    LET c == _compile_shader_program(k, status, linkOK)
    IN IF c.error # NoError
       THEN [r |-> [Blank EXCEPT !.state = "Failed", !._shader_handle = c.handle,
                                 !.error = c.error],
             compiled |-> c.compiled, programs |-> c.programs, shaders |-> c.shaders,
             buffers |-> glBuffers, vaos |-> glVaos]
       ELSE LET a == _allocate_vbo_vao(k)
                rc == _OpenGLRenderer_recalculate(k, a.vbo, a.vao, a.buffers, a.vaos)
            IN [r |-> [Blank EXCEPT !.state = IF rc.ok THEN "Ready" ELSE "Failed",
                                    !._shader_handle = c.handle,
                                    !._vbo_handle = a.vbo, !._vao_handle = a.vao,
                                    !.error = IF rc.ok THEN NoError ELSE "IndexError"],
                compiled |-> c.compiled, programs |-> c.programs, shaders |-> c.shaders,
                buffers |-> rc.buffers, vaos |-> rc.vaos]

\* Pyglet_VertexBufferedRenderer.__init__; pyglet owns the GL objects
Pyglet_init(status, linkOK) ==
    IF FirstDefect(status, linkOK) # 0
    THEN [Blank EXCEPT !.state = "Failed", !.error = "ShaderException"]
    ELSE LET up == Pyglet_update_vbo(Pyglet_allocate_vbo_vao)
         IN [Blank EXCEPT !.state = IF up.ok THEN "Ready" ELSE "Failed",
                          !.error = IF up.ok THEN NoError ELSE "IndexError",
                          !.vertex_list = up.vertex_list]

NaiveInstantaneousRenderer_init ==
    [Blank EXCEPT !.state = "Ready", !.image_grid = ImageGrid]

\* variant: no try / except around the three release calls
_del_uncaught(k, raises) ==
    LET r == rnd[k]
        fail1 == r._vao_handle = None \/ ~c_ulong_is_GLuint \/ (~ctxAlive /\ raises[1])
        fail2 == r._vbo_handle = None \/ ~c_ulong_is_GLuint \/ (~ctxAlive /\ raises[2])
        fail3 == r._shader_handle = None \/ (~ctxAlive /\ raises[3])
        raisedAt == IF fail1 THEN 1 ELSE IF fail2 THEN 2 ELSE IF fail3 THEN 3 ELSE 0
    IN [vaos |-> IF raisedAt = 1 THEN glVaos
                 ELSE {v \in glVaos : v.name # r._vao_handle},
        buffers |-> IF raisedAt \in {1, 2} THEN glBuffers
                    ELSE {b \in glBuffers : b.name # r._vbo_handle},
        programs |-> IF raisedAt # 0 THEN glPrograms
                     ELSE {p \in glPrograms : p.name # r._shader_handle},
        raisedAt |-> raisedAt,
        propagated |-> raisedAt # 0]

\* _OpenGLRenderer.__del__: three release calls inside try / except: pass.
\* A call raises when its handle is None (ctypes.c_ulong(None) is a TypeError),
\* when its c_ulong argument is not of the class GLuint that the pointer
\* parameter of glDeleteVertexArrays and glDeleteBuffers converts from, and may
\* raise (raises[i]) when the context is gone; the first call that raises ends
\* the try block.
_del_(k, raises) ==
    LET r == rnd[k]
        fail1 == r._vao_handle = None \/ ~c_ulong_is_GLuint \/ (~ctxAlive /\ raises[1])
        fail2 == r._vbo_handle = None \/ ~c_ulong_is_GLuint \/ (~ctxAlive /\ raises[2])
        fail3 == r._shader_handle = None \/ (~ctxAlive /\ raises[3])
        raisedAt == IF fail1 THEN 1 ELSE IF fail2 THEN 2 ELSE IF fail3 THEN 3 ELSE 0
    IN [vaos |-> IF raisedAt = 1 THEN glVaos
                 ELSE {v \in glVaos : v.name # r._vao_handle},
        buffers |-> IF raisedAt \in {1, 2} THEN glBuffers
                    ELSE {b \in glBuffers : b.name # r._vbo_handle},
        programs |-> IF raisedAt # 0 THEN glPrograms
                     ELSE {p \in glPrograms : p.name # r._shader_handle},
        raisedAt |-> raisedAt,
        propagated |-> FALSE]

\* draw() of renderer k: what it puts on screen and the uniforms it uploads
UsableProgram(k) ==
    \E p \in glPrograms : p.name = rnd[k]._shader_handle /\ p.linked

BoundVao(k) == {v \in glVaos : v.name = rnd[k]._vao_handle /\ v.attribs # <<>>}

OpenGLRenderer_draw(k) ==
    LET projection == _get_projection_matrix
        programs == {IF p.name = rnd[k]._shader_handle
                     THEN [p EXCEPT !.projection = projection,
                                    !.n_cols = IF k = "Geom" THEN TILEMAP_N_COLS ELSE @]
                     ELSE p : p \in glPrograms}
    IN [programs |-> programs,
        frame |-> IF ~UsableProgram(k) \/ BoundVao(k) = {} THEN <<>>
                  ELSE LET vao == CHOOSE v \in BoundVao(k) : TRUE
                       IN IF k = "Vertex"
                          THEN VertexBufferedRenderer_draw(vao.attribs)
                          ELSE GeomBufferedRenderer_draw(vao.attribs, TILEMAP_N_COLS)]

\* ------------------------------------------------------------------ actions
InitWith(maxCols, maxRows, platforms) ==
    /\ TILEMAP_N_COLS \in 1..maxCols
    /\ TILEMAP_N_ROWS \in 1..maxRows
    /\ tilemap = [i \in 1..(TILEMAP_N_COLS * TILEMAP_N_ROWS) |-> (i - 1) % NTileTypes]
    /\ nEdits = 0
    /\ ctxAlive = TRUE
    /\ c_ulong_is_GLuint \in platforms
    /\ glPrograms = {} /\ glShaders = {} /\ glBuffers = {} /\ glVaos = {}
    /\ rnd = [k \in Kinds |-> Blank]
    /\ frame = [k \in Kinds |-> <<>>]
    /\ ghost = [k \in Kinds |-> Ghost0]

Init == InitWith(MaxCols, MaxRows, {TRUE})

\* Renderer(tilemap), the shader sources compiling as status says
Construct(k, status, linkOK) ==
    /\ ctxAlive
    /\ rnd[k].state = "Uninitialized"
    /\ IF k \in GLKinds
       THEN \E res \in {OpenGLRenderer_init(k, status, linkOK)} :
               /\ rnd' = [rnd EXCEPT ![k] = res.r]
               /\ glPrograms' = res.programs
               /\ glShaders' = res.shaders
               /\ glBuffers' = res.buffers
               /\ glVaos' = res.vaos
               /\ ghost' = [ghost EXCEPT ![k].failStage = FirstDefect(status, linkOK),
                                         ![k].compiled = res.compiled,
                                         ![k].synced = (res.r.state = "Ready"),
                                         ![k].uploaded =
                                             IF res.r.state = "Ready" THEN Tilemap_map ELSE @]
       ELSE \E r \in {IF k = "Naive" THEN NaiveInstantaneousRenderer_init
                      ELSE Pyglet_init(status, linkOK)} :
               /\ rnd' = [rnd EXCEPT ![k] = r]
               /\ ghost' = [ghost EXCEPT ![k].failStage = FirstDefect(status, linkOK),
                                         ![k].synced = (r.state = "Ready")]
               /\ UNCHANGED <<glPrograms, glShaders, glBuffers, glVaos>>
    /\ UNCHANGED <<TILEMAP_N_COLS, TILEMAP_N_ROWS, c_ulong_is_GLuint, tilemap, nEdits, ctxAlive, frame>>

ConstructOk ==
    \E k \in Kinds : Construct(k, [i \in 1..ShaderCount(k) |-> TRUE], TRUE)

ConstructAny ==
    \E k \in GLKinds : \E status \in [1..ShaderCount(k) -> BOOLEAN] :
        \E linkOK \in BOOLEAN : Construct(k, status, linkOK)

\* the owner of the tilemap changes one tile
Edit(x, y, t) ==
    /\ nEdits < MaxEdits
    /\ Tilemap_getitem(y, x) # t
    /\ tilemap' = [tilemap EXCEPT ![y * TILEMAP_N_COLS + x + 1] = t]
    /\ nEdits' = nEdits + 1
    /\ ghost' = [k \in Kinds |->
                    [ghost[k] EXCEPT !.synced = @ /\ k \notin BufferedKinds,
                                     !.drawnSynced = FALSE]]
    /\ UNCHANGED <<TILEMAP_N_COLS, TILEMAP_N_ROWS, c_ulong_is_GLuint, ctxAlive,
                   glPrograms, glShaders, glBuffers, glVaos, rnd, frame>>

\* the edits tried: any one cell, set to the next tile type of the atlas
EditTile ==
    \E x \in 0..(TILEMAP_N_COLS - 1) : \E y \in 0..(TILEMAP_N_ROWS - 1) :
        Edit(x, y, (Tilemap_getitem(y, x) + 1) % NTileTypes)

\* NaiveInstantaneousRenderer.recalculate returns at once
Recalculate(k) ==
    /\ ctxAlive
    /\ rnd[k].state = "Ready"
    /\ IF k \in GLKinds
       THEN \E rc \in {_OpenGLRenderer_recalculate(k, rnd[k]._vbo_handle,
                           rnd[k]._vao_handle, glBuffers, glVaos)} :
               /\ glBuffers' = rc.buffers
               /\ glVaos' = rc.vaos
               /\ rnd' = rnd
               /\ ghost' = [ghost EXCEPT ![k].synced = @ \/ rc.ok,
                                         ![k].uploaded = IF rc.ok THEN Tilemap_map ELSE @,
                                         ![k].drawnStale = @ /\ ~rc.ok]
       ELSE IF k = "PygletVertex"
       THEN \E up \in {Pyglet_update_vbo(rnd[k].vertex_list)} :
               /\ rnd' = [rnd EXCEPT ![k].vertex_list = up.vertex_list]
               /\ ghost' = [ghost EXCEPT ![k].synced = @ \/ up.ok]
               /\ UNCHANGED <<glBuffers, glVaos>>
       ELSE UNCHANGED <<rnd, glBuffers, glVaos, ghost>>
    /\ UNCHANGED <<TILEMAP_N_COLS, TILEMAP_N_ROWS, c_ulong_is_GLuint, tilemap, nEdits, ctxAlive,
                   glPrograms, glShaders, frame>>

RecalculateAny == \E k \in Kinds : Recalculate(k)

Draw(k) ==
    /\ ctxAlive
    /\ rnd[k].state = "Ready"
    /\ IF k \in GLKinds
       THEN \E d \in {OpenGLRenderer_draw(k)} :
               /\ glPrograms' = d.programs
               /\ frame' = [frame EXCEPT ![k] = d.frame]
               /\ rnd' = rnd
       ELSE IF k = "PygletVertex"
       THEN /\ rnd' = [rnd EXCEPT ![k].projection = _get_projection_matrix]
            /\ frame' = [frame EXCEPT ![k] = Pyglet_draw(rnd[k].vertex_list)]
            /\ UNCHANGED glPrograms
       ELSE /\ frame' = [frame EXCEPT ![k] = NaiveInstantaneousRenderer_draw(rnd[k].image_grid)]
            /\ UNCHANGED <<rnd, glPrograms>>
    /\ ghost' = [ghost EXCEPT ![k].drawnSynced = ghost[k].synced,
                              ![k].drawnStale = (k \in GLKinds /\ ~ghost[k].synced)]
    /\ UNCHANGED <<TILEMAP_N_COLS, TILEMAP_N_ROWS, c_ulong_is_GLuint, tilemap, nEdits, ctxAlive,
                   glShaders, glBuffers, glVaos>>

DrawAny == \E k \in Kinds : Draw(k)

\* the renderer object is collected: __del__ runs
Del(k, raises) ==
    /\ rnd[k].state \in {"Ready", "Failed"}
    /\ \E d \in {_del_(k, raises)} :
          /\ glVaos' = d.vaos
          /\ glBuffers' = d.buffers
          /\ glPrograms' = d.programs
          /\ ghost' = [ghost EXCEPT ![k].delCtx = IF ctxAlive THEN "alive" ELSE "gone",
                                    ![k].delFailedAt = d.raisedAt,
                                    ![k].delRaised = d.propagated]
    /\ rnd' = [rnd EXCEPT ![k].state = "Destroyed"]
    /\ UNCHANGED <<TILEMAP_N_COLS, TILEMAP_N_ROWS, c_ulong_is_GLuint, tilemap, nEdits, ctxAlive,
                   glShaders, frame>>

Destroy ==
    \E k \in GLKinds : \E raises \in [1..3 -> BOOLEAN] : Del(k, raises)

\* the window closes: the context and every object in it are gone
CtxTeardown ==
    /\ ctxAlive
    /\ ctxAlive' = FALSE
    /\ glPrograms' = {} /\ glShaders' = {} /\ glBuffers' = {} /\ glVaos' = {}
    /\ frame' = [k \in Kinds |-> <<>>]
    /\ ghost' = [k \in Kinds |-> [ghost[k] EXCEPT !.synced = FALSE, !.drawnSynced = FALSE,
                                                   !.drawnStale = FALSE]]
    /\ UNCHANGED <<TILEMAP_N_COLS, TILEMAP_N_ROWS, c_ulong_is_GLuint, tilemap, nEdits, rnd>>

\* rendering: every shader source is valid, the context outlives the renderers
Next == ConstructOk \/ EditTile \/ RecalculateAny \/ DrawAny

Spec == Init /\ [][Next]_vars

\* life cycle of the raw-OpenGL renderers: any shader source may be broken, the
\* renderers are destroyed, the context is torn down
NextLife == ConstructAny \/ RecalculateAny \/ DrawAny \/ Destroy \/ CtxTeardown

InitLife == InitWith(MaxCols, MaxRows, BOOLEAN)

SpecLife == InitLife /\ [][NextLife]_vars

\* the two buffered raw-OpenGL renderers alone, on tilemaps one column and one
\* row larger
InitBuf == InitWith(MaxCols + 1, MaxRows + 1, {TRUE})

ConstructBuf ==
    \E k \in GLKinds : Construct(k, [i \in 1..ShaderCount(k) |-> TRUE], TRUE)

RecalculateBuf == \E k \in GLKinds : Recalculate(k)

DrawBuf == \E k \in GLKinds : Draw(k)

NextBuf == ConstructBuf \/ EditTile \/ RecalculateBuf \/ DrawBuf

SpecBuf == InitBuf /\ [][NextBuf]_vars

\* =================================================================== properties
Cells == (0..(TILEMAP_N_COLS - 1)) \X (0..(TILEMAP_N_ROWS - 1))
Range(f) == {f[i] : i \in DOMAIN f}

\* the atlas cell of tile type t: the unique column and row with t = row * N + column
AtlasCol(t) ==
    CHOOSE c \in 0..(TEXTURE_N_TILES_PER_ROW - 1) :
        \E r \in 0..(AtlasRows - 1) : r * TEXTURE_N_TILES_PER_ROW + c = t
AtlasRow(t) ==
    CHOOSE r \in 0..(AtlasRows - 1) :
        \E c \in 0..(TEXTURE_N_TILES_PER_ROW - 1) : r * TEXTURE_N_TILES_PER_ROW + c = t
AtlasCellOf(t) ==
    [u0 |-> AtlasCol(t) * TEXTURE_TILE_SIZE_NORMALIZED,
     v0 |-> AtlasRow(t) * TEXTURE_TILE_SIZE_NORMALIZED,
     u1 |-> (AtlasCol(t) + 1) * TEXTURE_TILE_SIZE_NORMALIZED,
     v1 |-> (AtlasRow(t) + 1) * TEXTURE_TILE_SIZE_NORMALIZED]
InsetRect(t) ==
    [u0 |-> AtlasCellOf(t).u0 + TEXTURE_TILE_PADDING,
     v0 |-> AtlasCellOf(t).v0 + TEXTURE_TILE_PADDING,
     u1 |-> AtlasCellOf(t).u1 - TEXTURE_TILE_PADDING,
     v1 |-> AtlasCellOf(t).v1 - TEXTURE_TILE_PADDING]

\* Geometry comparison.  A textured axis-parallel rectangle on screen, in
\* window pixels with one tile TEXTURE_TILE_SIZE_PX wide (x0, y0, x1, y1) and in
\* atlas units times TEXTURE_TILE_SIZE_PX (u0, v0, u1, v1).
\* Two triangles a, b make such a rectangle when they share the diagonal
\* a[2]-a[3] = b[1]-b[2] and positions and texcoords run along the axes.
IsQuadPair(a, b) ==
    /\ a[2] = b[1] /\ a[3] = b[2]
    /\ a[2][2] = a[1][2] /\ a[3][1] = a[1][1]
    /\ b[3][1] = a[2][1] /\ b[3][2] = a[3][2]
    /\ a[2][4] = a[1][4] /\ a[3][3] = a[1][3]
    /\ b[3][3] = a[2][3] /\ b[3][4] = a[3][4]

QuadOfPair(a, b) ==
    [x0 |-> a[1][1] * TEXTURE_TILE_SIZE_PX, y0 |-> a[1][2] * TEXTURE_TILE_SIZE_PX,
     x1 |-> b[3][1] * TEXTURE_TILE_SIZE_PX, y1 |-> b[3][2] * TEXTURE_TILE_SIZE_PX,
     u0 |-> a[1][3] * TEXTURE_TILE_SIZE_PX, v0 |-> a[1][4] * TEXTURE_TILE_SIZE_PX,
     u1 |-> b[3][3] * TEXTURE_TILE_SIZE_PX, v1 |-> b[3][4] * TEXTURE_TILE_SIZE_PX]

QuadOfBlit(b) ==
    [x0 |-> b.x1, y0 |-> b.y1, x1 |-> b.x2, y1 |-> b.y2,
     u0 |-> b.u1 * TEXTURE_TILE_SIZE_NORMALIZED, v0 |-> b.v1 * TEXTURE_TILE_SIZE_NORMALIZED,
     u1 |-> b.u2 * TEXTURE_TILE_SIZE_NORMALIZED, v1 |-> b.v2 * TEXTURE_TILE_SIZE_NORMALIZED]

ScreenQuads(k) ==
    IF k = "Naive" THEN {QuadOfBlit(b) : b \in Range(frame[k])}
    ELSE {QuadOfPair(frame[k][p[1]], frame[k][p[2]]) :
            p \in {q \in (DOMAIN frame[k]) \X (DOMAIN frame[k]) :
                     IsQuadPair(frame[k][q[1]], frame[k][q[2]])}}

\* unit cell (x, y) textured with atlas rectangle rect
CellQuad(x, y, rect) ==
    [x0 |-> x * TEXTURE_TILE_SIZE_PX, y0 |-> y * TEXTURE_TILE_SIZE_PX,
     x1 |-> (x + 1) * TEXTURE_TILE_SIZE_PX, y1 |-> (y + 1) * TEXTURE_TILE_SIZE_PX,
     u0 |-> rect.u0 * TEXTURE_TILE_SIZE_PX, v0 |-> rect.v0 * TEXTURE_TILE_SIZE_PX,
     u1 |-> rect.u1 * TEXTURE_TILE_SIZE_PX, v1 |-> rect.v1 * TEXTURE_TILE_SIZE_PX]

ThreeVariants == {"Naive", "Vertex", "Geom"}

\* C1 as stated: the three renderer variants produce identical output under a
\* geometry comparison: after a draw() of each on the same tilemap, every unit
\* cell is covered by the same atlas rectangle in all three.
C1_AllVariantsIdentical ==
    \A k1 \in ThreeVariants : \A k2 \in ThreeVariants :
        (ghost[k1].drawnSynced /\ ghost[k2].drawnSynced)
            => ScreenQuads(k1) = ScreenQuads(k2)

\* C1 amended: each variant's draw() covers every unit cell (x, y) with a
\* rectangle of the atlas cell of tile type tilemap[y, x], and nothing else:
\* the two buffered variants with the same rectangle, the atlas cell inset by
\* TEXTURE_TILE_PADDING on all four sides, the naive variant with the whole
\* atlas cell.
C1_SameCellPaddingApart ==
    \A k \in ThreeVariants :
        ghost[k].drawnSynced =>
            ScreenQuads(k) =
                {CellQuad(c[1], c[2],
                    IF k = "Naive" THEN AtlasCellOf(Tilemap_getitem(c[2], c[1]))
                    ELSE InsetRect(Tilemap_getitem(c[2], c[1]))) : c \in Cells}

C1_Witness ==
    /\ \A k \in ThreeVariants : ghost[k].drawnSynced
    /\ TILEMAP_N_COLS = 2 /\ TILEMAP_N_ROWS = 2 /\ nEdits = 1
    /\ ScreenQuads("Vertex") = ScreenQuads("Geom")
    /\ ScreenQuads("Vertex") # ScreenQuads("Naive")

\* C2: per-tile expansion and point expansion yield the same set of final
\* triangles: after a draw() of each on the same tilemap the two sets of
\* triangles are equal, two triangles per cell, and every cell (x, y) has its
\* two triangles, with the texcoords of tile type tilemap[y, x], in both.
CellTriangles(x, y, r) ==
    { << <<x, y, r.u0, r.v0>>, <<x + 1, y, r.u1, r.v0>>, <<x, y + 1, r.u0, r.v1>> >>,
      << <<x + 1, y, r.u1, r.v0>>, <<x, y + 1, r.u0, r.v1>>, <<x + 1, y + 1, r.u1, r.v1>> >> }

C2_SameTriangles ==
    (ghost["Vertex"].drawnSynced /\ ghost["Geom"].drawnSynced) =>
        /\ Range(frame["Vertex"]) = Range(frame["Geom"])
        /\ Cardinality(Range(frame["Geom"])) = 2 * Cardinality(Cells)
        /\ \A c \in Cells :
              CellTriangles(c[1], c[2], InsetRect(Tilemap_getitem(c[2], c[1])))
                  \subseteq (Range(frame["Vertex"]) \cap Range(frame["Geom"]))

C2_Witness ==
    /\ ghost["Vertex"].drawnSynced /\ ghost["Geom"].drawnSynced
    /\ TILEMAP_N_COLS = 3 /\ TILEMAP_N_ROWS = 2 /\ nEdits = 1
    /\ frame["Vertex"] # frame["Geom"]
    /\ Range(frame["Vertex"]) = Range(frame["Geom"])

\* C3: a draw() that follows a recalculate() (or the construction) with no
\* tilemap edit in between shows, for every cell, the tile type the tilemap
\* holds: every unit cell is covered by one rectangle taken from inside the atlas
\* cell of tilemap[y, x], and nothing else is drawn; the renderer is the one
\* constructed once.
ShowsCell(k, x, y) ==
    \E q \in ScreenQuads(k) :
        /\ q.x0 = x * TEXTURE_TILE_SIZE_PX /\ q.x1 = (x + 1) * TEXTURE_TILE_SIZE_PX
        /\ q.y0 = y * TEXTURE_TILE_SIZE_PX /\ q.y1 = (y + 1) * TEXTURE_TILE_SIZE_PX
        /\ q.u0 < q.u1 /\ q.v0 < q.v1
        /\ AtlasCellOf(Tilemap_getitem(y, x)).u0 * TEXTURE_TILE_SIZE_PX <= q.u0
        /\ q.u1 <= AtlasCellOf(Tilemap_getitem(y, x)).u1 * TEXTURE_TILE_SIZE_PX
        /\ AtlasCellOf(Tilemap_getitem(y, x)).v0 * TEXTURE_TILE_SIZE_PX <= q.v0
        /\ q.v1 <= AtlasCellOf(Tilemap_getitem(y, x)).v1 * TEXTURE_TILE_SIZE_PX

ShowsTilemap(k) ==
    /\ \A c \in Cells : ShowsCell(k, c[1], c[2])
    /\ Cardinality(ScreenQuads(k)) = Cardinality(Cells)

C3_DrawAfterRecalculateShowsTilemap ==
    \A k \in Kinds :
        ghost[k].drawnSynced => (rnd[k].state = "Ready" /\ ShowsTilemap(k))

C3_Witness ==
    /\ nEdits = 1 /\ TILEMAP_N_COLS = 2 /\ TILEMAP_N_ROWS = 2
    /\ \A k \in Kinds : ghost[k].drawnSynced /\ ShowsTilemap(k)

\* C4: a shader that fails to compile, or a program that fails to link, aborts
\* the construction with the compiler's (the linker's) diagnostic text: no later
\* shader is compiled, no buffer or vertex array is allocated, nothing is
\* uploaded or drawn, the renderer never is Ready, and it owns no linked program.
Owned(objs, k) == {o \in objs : o.owner = k}

ExpectedDiagnostic(k) ==
    IF ghost[k].failStage <= ShaderCount(k) THEN ShaderInfoLog(ghost[k].failStage)
    ELSE ProgramInfoLog

C4_FailedBuildAborts ==
    \A k \in GLKinds :
        ghost[k].failStage # 0 =>
            /\ rnd[k].state \in {"Failed", "Destroyed"}
            /\ rnd[k].error = ExpectedDiagnostic(k)
            /\ ghost[k].compiled =
                  (IF ghost[k].failStage <= ShaderCount(k) THEN ghost[k].failStage
                   ELSE ShaderCount(k))
            /\ rnd[k]._vbo_handle = None /\ rnd[k]._vao_handle = None
            /\ Owned(glBuffers, k) = {} /\ Owned(glVaos, k) = {}
            /\ frame[k] = <<>>
            /\ ~ghost[k].synced /\ ~ghost[k].drawnSynced
            /\ \A p \in Owned(glPrograms, k) : ~p.linked

C4_Witness ==
    /\ ghost["Vertex"].failStage = 2 /\ rnd["Vertex"].error = ShaderInfoLog(2)
    /\ ghost["Vertex"].compiled = 2 /\ rnd["Vertex"].state = "Failed"
    /\ ghost["Geom"].failStage = 4 /\ rnd["Geom"].error = ProgramInfoLog
    /\ ghost["Geom"].compiled = 3 /\ rnd["Geom"].state = "Failed"

\* C5 as stated: once a renderer whose construction was started is destroyed
\* while the graphics context is alive, no program, buffer or vertex array it
\* created remains live; and no handle names the objects of two renderers.
C5_HandlesReleasedOnDestroy ==
    /\ \A k \in GLKinds :
          (rnd[k].state = "Destroyed" /\ ghost[k].delCtx = "alive" /\ ctxAlive) =>
              /\ Owned(glPrograms, k) = {}
              /\ Owned(glBuffers, k) = {}
              /\ Owned(glVaos, k) = {}
    /\ \A objs \in {glPrograms, glBuffers, glVaos} :
          \A a \in objs : \A b \in objs : a.name = b.name => a.owner = b.owner

\* C6: destroying a renderer after the context was torn down raises nothing to
\* the caller, whichever of the three release calls fails, releases nothing,
\* and leaves the renderer Destroyed.
C6_LateDestroyHarmless ==
    \A k \in GLKinds :
        ghost[k].delCtx = "gone" =>
            /\ ~ghost[k].delRaised
            /\ rnd[k].state = "Destroyed"
            /\ glPrograms = {} /\ glBuffers = {} /\ glVaos = {}

C6_Witness ==
    /\ ~ctxAlive /\ c_ulong_is_GLuint
    /\ ghost["Vertex"].delCtx = "gone" /\ ghost["Vertex"].delFailedAt = 2
    /\ ghost["Geom"].delCtx = "gone" /\ ghost["Geom"].delFailedAt = 3
    /\ rnd["Vertex"].state = "Destroyed" /\ rnd["Geom"].state = "Destroyed"
    /\ ~ghost["Vertex"].delRaised /\ ~ghost["Geom"].delRaised

\* C7: every projection matrix a draw() uploads maps the corner (0, 0) of the
\* tilemap to (-1, -1) and the corner (cols, rows) to (1, 1) of clip space, and
\* every grid point in between into [-1, 1] on both axes.
\* Clip(m, x, y): row r of m times the column vector (x, y, 0, 1).
Clip(m, x, y, r) ==
    RAdd(RAdd(RMul(m[r], RInt(x)), RMul(m[4 + r], RInt(y))), m[12 + r])

UploadedProjections ==
    {p.projection : p \in {q \in glPrograms : q.projection # <<>>}}
    \cup {rnd[k].projection : k \in {j \in Kinds : rnd[j].projection # <<>>}}

C7_ProjectionMapsCorners ==
    \A m \in UploadedProjections :
        /\ REq(Clip(m, 0, 0, 1), RInt(-1)) /\ REq(Clip(m, 0, 0, 2), RInt(-1))
        /\ REq(Clip(m, TILEMAP_N_COLS, TILEMAP_N_ROWS, 1), RInt(1))
        /\ REq(Clip(m, TILEMAP_N_COLS, TILEMAP_N_ROWS, 2), RInt(1))
        /\ \A x \in 0..TILEMAP_N_COLS : \A y \in 0..TILEMAP_N_ROWS :
              /\ RLe(RInt(-1), Clip(m, x, y, 1)) /\ RLe(Clip(m, x, y, 1), RInt(1))
              /\ RLe(RInt(-1), Clip(m, x, y, 2)) /\ RLe(Clip(m, x, y, 2), RInt(1))
              /\ REq(Clip(m, x, y, 4), RInt(1))

C7_Witness ==
    /\ TILEMAP_N_COLS = 2 /\ TILEMAP_N_ROWS = 1
    /\ rnd["PygletVertex"].projection # <<>>
    /\ \A k \in GLKinds : \E p \in Owned(glPrograms, k) : p.projection # <<>>
    /\ \A m \in UploadedProjections : REq(Clip(m, 1, 1, 1), RInt(0))

\* vertex n (from 1) of the vertex data renderer k holds, as
\* <<position x, position y, texcoord x, texcoord y>>
VertexListKinds == {"Vertex", "PygletVertex"}

VertexAt(k, n) ==
    IF k = "Vertex"
    THEN LET data == BufferData(rnd[k]._vbo_handle)
         IN <<data[4 * n - 3], data[4 * n - 2], data[4 * n - 1], data[4 * n]>>
    ELSE <<rnd[k].vertex_list.aPosition[2 * n - 1], rnd[k].vertex_list.aPosition[2 * n],
           rnd[k].vertex_list.aTexCoord[2 * n - 1], rnd[k].vertex_list.aTexCoord[2 * n]>>

\* the loops emit cell (x, y) as tile number x * rows + y
TileNumber(x, y) == x * TILEMAP_N_ROWS + y

\* the texcoord rectangle the 6 vertices of cell (x, y) span
TexRectAt(k, x, y) ==
    LET vs == {VertexAt(k, 6 * TileNumber(x, y) + j) : j \in 1..6}
        us == {v[3] : v \in vs}
        ws == {v[4] : v \in vs}
    IN [u0 |-> CHOOSE u \in us : \A o \in us : u <= o,
        v0 |-> CHOOSE w \in ws : \A o \in ws : w <= o,
        u1 |-> CHOOSE u \in us : \A o \in us : o <= u,
        v1 |-> CHOOSE w \in ws : \A o \in ws : o <= w]

\* C8: for every tile index t of the atlas the rectangle of the vertex builders
\* starts at column (t % tiles_per_row) and row (t // tiles_per_row) of the atlas
\* plus the padding, has size tile_size - 2 * padding, and so is the atlas cell
\* of t inset by the padding on all four sides; the texcoords stored for a cell
\* span that rectangle of the cell's tile type, whatever the cell.
C8_AtlasRectangle ==
    /\ \A t \in 0..(NTileTypes - 1) :
          /\ tx0(t) = AtlasCol(t) * TEXTURE_TILE_SIZE_NORMALIZED + TEXTURE_TILE_PADDING
          /\ ty0(t) = AtlasRow(t) * TEXTURE_TILE_SIZE_NORMALIZED + TEXTURE_TILE_PADDING
          /\ tSize = TEXTURE_TILE_SIZE_NORMALIZED - 2 * TEXTURE_TILE_PADDING
          /\ tx0(t) - AtlasCellOf(t).u0 = TEXTURE_TILE_PADDING
          /\ ty0(t) - AtlasCellOf(t).v0 = TEXTURE_TILE_PADDING
          /\ AtlasCellOf(t).u1 - (tx0(t) + tSize) = TEXTURE_TILE_PADDING
          /\ AtlasCellOf(t).v1 - (ty0(t) + tSize) = TEXTURE_TILE_PADDING
    /\ \A k \in VertexListKinds :
          ghost[k].synced =>
              \A c \in Cells :
                  TexRectAt(k, c[1], c[2]) = InsetRect(Tilemap_getitem(c[2], c[1]))

C8_Witness ==
    /\ TILEMAP_N_COLS = 2 /\ TILEMAP_N_ROWS = 2
    /\ \A k \in VertexListKinds : ghost[k].synced
    /\ Tilemap_getitem(0, 0) = 0
    /\ Tilemap_getitem(0, 1) = TEXTURE_N_TILES_PER_ROW - 1
    /\ Tilemap_getitem(1, 0) = TEXTURE_N_TILES_PER_ROW
    /\ \A k \in VertexListKinds :
          /\ TexRectAt(k, 0, 0) = [u0 |-> 1, v0 |-> 1, u1 |-> 3, v1 |-> 3]
          /\ TexRectAt(k, 1, 0) = [u0 |-> 5, v0 |-> 1, u1 |-> 7, v1 |-> 3]
          /\ TexRectAt(k, 0, 1) = [u0 |-> 1, v0 |-> 5, u1 |-> 3, v1 |-> 7]

\* C9: after a recalculate() the point-mode buffer holds n_tiles entries and the
\* per-vertex buffer n_tiles * 6 vertices of 4 floats, n_tiles = rows * cols;
\* the per-vertex fill loop assigns every slot of its list exactly once and
\* never indexes past its end.
C9_BufferSizes ==
    /\ rnd["Geom"].state = "Ready" =>
          Len(BufferData(rnd["Geom"]._vbo_handle)) = TILEMAP_N_ROWS * TILEMAP_N_COLS
    /\ rnd["Vertex"].state = "Ready" =>
          Len(BufferData(rnd["Vertex"]._vbo_handle)) = TILEMAP_N_ROWS * TILEMAP_N_COLS * 6 * 4
    /\ \A up \in {VertexBufferedRenderer_update_vbo} :
          /\ up.ok
          /\ \A p \in DOMAIN up.count : up.count[p] = 1

C9_Witness ==
    /\ TILEMAP_N_COLS = 3 /\ TILEMAP_N_ROWS = 3 /\ nEdits = 1
    /\ ghost["Geom"].synced /\ ghost["Vertex"].synced
    /\ Len(BufferData(rnd["Geom"]._vbo_handle)) = 9
    /\ Len(BufferData(rnd["Vertex"]._vbo_handle)) = 54 * 4

\* C10: per-tile expansion emits cell (x, y) as 6 consecutive vertices, top-left,
\* top-right, bottom-left, top-right, bottom-left, bottom-right, each with the
\* matching corner of the atlas rectangle of the cell's tile type, and the two
\* triangles cover the unit cell exactly: each has half its area, they share the
\* diagonal and lie on opposite sides of it.
Cross(a, b, c) == (b[1] - a[1]) * (c[2] - a[2]) - (b[2] - a[2]) * (c[1] - a[1])
Abs(n) == IF n < 0 THEN -n ELSE n

CoversUnitCell(vs, x, y) ==
    /\ \A j \in 1..6 : vs[j][1] \in {x, x + 1} /\ vs[j][2] \in {y, y + 1}
    /\ Abs(Cross(vs[1], vs[2], vs[3])) = 1
    /\ Abs(Cross(vs[4], vs[5], vs[6])) = 1
    /\ {vs[2], vs[3]} = {vs[4], vs[5]}
    /\ Cross(vs[2], vs[3], vs[1]) * Cross(vs[2], vs[3], vs[6]) < 0

C10_SixVerticesPerTile ==
    \A k \in VertexListKinds :
        ghost[k].synced =>
            \A c \in Cells :
                LET x == c[1]
                    y == c[2]
                    r == InsetRect(Tilemap_getitem(y, x))
                    vs == [j \in 1..6 |-> VertexAt(k, 6 * TileNumber(x, y) + j)]
                IN /\ vs = << <<x,     y,     r.u0, r.v0>>,
                              <<x + 1, y,     r.u1, r.v0>>,
                              <<x,     y + 1, r.u0, r.v1>>,
                              <<x + 1, y,     r.u1, r.v0>>,
                              <<x,     y + 1, r.u0, r.v1>>,
                              <<x + 1, y + 1, r.u1, r.v1>> >>
                   /\ CoversUnitCell(vs, x, y)

C10_Witness ==
    /\ TILEMAP_N_COLS = 2 /\ TILEMAP_N_ROWS = 2 /\ nEdits = 1
    /\ \A k \in VertexListKinds : ghost[k].synced
    /\ \A k \in VertexListKinds :
          /\ VertexAt(k, 6 * TileNumber(1, 1) + 1)[1] = 1
          /\ VertexAt(k, 6 * TileNumber(1, 1) + 1)[2] = 1
          /\ VertexAt(k, 6 * TileNumber(1, 1) + 6)[1] = 2
          /\ VertexAt(k, 6 * TileNumber(1, 1) + 6)[2] = 2

\* the triangles of a tilemap whose linear buffer is m
TrianglesOf(m) ==
    UNION {CellTriangles(c[1], c[2], InsetRect(m[c[2] * TILEMAP_N_COLS + c[1] + 1])) :
             c \in Cells}

Handles(r) == <<r._shader_handle, r._vbo_handle, r._vao_handle>>

\* the vertices the last draw call of renderer k asked for, and the vertices
\* its buffer holds
RequestedVertices(k) ==
    IF k = "Vertex" THEN 3 * Len(frame[k]) ELSE Len(frame[k]) \div 2

UploadedVertices(k) ==
    IF k = "Vertex" THEN Len(BufferData(rnd[k]._vbo_handle)) \div 4
    ELSE Len(BufferData(rnd[k]._vbo_handle))

\* A draw() of a buffered renderer leaves the buffers, the vertex arrays
\* and the three handles as they were, shows the tilemap as it was at the last
\* recalculate() (also when it was edited since) and asks for no more vertices
\* than that recalculate() uploaded; a recalculate() keeps the handles and the
\* object names allocated at construction.
C11_DrawStep(k) ==
    Draw(k) =>
        /\ glBuffers' = glBuffers /\ glVaos' = glVaos
        /\ Handles(rnd'[k]) = Handles(rnd[k])
        /\ Names(glPrograms') = Names(glPrograms)
        /\ Range(frame'[k]) = TrianglesOf(ghost[k].uploaded)
        /\ RequestedVertices(k)' <= UploadedVertices(k)
        /\ RequestedVertices(k)' = UploadedVertices(k)'

C11_RecalculateStep(k) ==
    Recalculate(k) =>
        /\ Handles(rnd'[k]) = Handles(rnd[k])
        /\ Names(glBuffers') = Names(glBuffers)
        /\ Names(glVaos') = Names(glVaos)
        /\ glPrograms' = glPrograms

\* C11: every step of a buffered renderer is a draw() or recalculate() step as
\* described above: draw() changes no buffer, vertex array or handle and shows
\* the tilemap of the last recalculate() with exactly the vertices it uploaded.
C11_DrawLeavesBuffers ==
    [][\A k \in GLKinds : C11_DrawStep(k) /\ C11_RecalculateStep(k)]_vars

C11_Witness ==
    /\ TILEMAP_N_COLS = 3 /\ TILEMAP_N_ROWS = 2 /\ nEdits = 1
    /\ \A k \in GLKinds :
          /\ ghost[k].drawnStale /\ ghost[k].uploaded # Tilemap_map
          /\ Range(frame[k]) = TrianglesOf(ghost[k].uploaded)
          /\ Range(frame[k]) # TrianglesOf(Tilemap_map)
          /\ RequestedVertices(k) = UploadedVertices(k)

====
